---- MODULE Spec2Model ----
(***************************************************************************)
(* The `created` daemon (src/created/src/main.rs): the heartbeat loop of   *)
(* main, the ctrlc signal handler, and the robot_worker thread with        *)
(* pick_serial_port, connect_and_act and send_bytes, running against a     *)
(* host device namespace that changes under them.                          *)
(***************************************************************************)
EXTENDS Integers, Sequences, FiniteSets, TLC

\* ------------------------------------------------------------- bounds
\* Number of poll iterations of robot_worker that are explored.
MaxPolls == 3
\* Number of SIGINT/SIGTERM deliveries that are explored.
MaxSignals == 1

\* ---------------------------------------------------------- constants
\* recv_timeout(Duration::from_millis(200))
RecvTimeoutMs == 200
\* thread::sleep(Duration::from_secs(2))
PollSleepSecs == 2
PollSleepMs == PollSleepSecs * 1000
\* serial_cfg.baud.unwrap_or(57_600)
DefaultBaud == 57600
\* the three inter-frame sleeps of connect_and_act
DelayAfterStart == 50
DelayAfterSong == 20
DelayAfterPlay == 1500

\* Option::None, for every Option of the program.
None == "None"

\* ------------------------------------------------------ names and paths
\* The characters used in device names, in ASCII order: str and OsStr
\* compare bytewise, so only the relative order matters.
Ascii ==
  << "-", "0", "1", "A", "B", "C", "D", "F", "I", "M", "S", "T", "U",
     "a", "b", "c", "d", "e", "h", "i", "o", "p", "r", "s", "t", "u", "y" >>

Ord(c) == CHOOSE i \in 1..Len(Ascii) : Ascii[i] = c

\* str::starts_with
StartsWith(s, pre) ==
  /\ Len(s) >= Len(pre)
  /\ SubSeq(s, 1, Len(pre)) = pre

\* Bytewise lexicographic order (Ord for OsStr / path components).
LexLess(a, b) ==
  \E i \in 1..(Len(a) + 1) :
    /\ i <= Len(b)
    /\ \A j \in 1..(i - 1) : a[j] = b[j]
    /\ \/ i = Len(a) + 1
       \/ i <= Len(a) /\ Ord(a[i]) < Ord(b[i])

\* The prefixes pick_serial_port tests.
PrefixByIrobot == << "b", "y", "-", "i", "r", "o", "b", "o", "t", "-" >>
PrefixTtyUSB == << "t", "t", "y", "U", "S", "B" >>
PrefixTtyACM == << "t", "t", "y", "A", "C", "M" >>

\* The three directories pick_serial_port lists.
DirSerial == "/dev/serial"
DirById == "/dev/serial/by-id"
DirDev == "/dev"

\* The entries of the host's device namespace that are modelled: for each
\* path, the directory that lists it, its file name, and whether it is a
\* symlink (which can dangle) or a device node.
PathInfo ==
  [ p \in { "/dev/ttyUSB0", "/dev/ttyUSB10", "/dev/ttyACM0", "/dev/ttyS0",
            "/dev/serial/by-irobot-create", "/dev/serial/by-path",
            "/dev/serial/by-id/usb-FTDI" } |->
    CASE p = "/dev/ttyUSB0" ->
           [dir |-> DirDev, link |-> FALSE,
            name |-> << "t", "t", "y", "U", "S", "B", "0" >>]
      [] p = "/dev/ttyUSB10" ->
           [dir |-> DirDev, link |-> FALSE,
            name |-> << "t", "t", "y", "U", "S", "B", "1", "0" >>]
      [] p = "/dev/ttyACM0" ->
           [dir |-> DirDev, link |-> FALSE,
            name |-> << "t", "t", "y", "A", "C", "M", "0" >>]
      [] p = "/dev/ttyS0" ->
           [dir |-> DirDev, link |-> FALSE,
            name |-> << "t", "t", "y", "S", "0" >>]
      [] p = "/dev/serial/by-irobot-create" ->
           [dir |-> DirSerial, link |-> TRUE,
            name |-> << "b", "y", "-", "i", "r", "o", "b", "o", "t", "-",
                        "c", "r", "e", "a", "t", "e" >>]
      [] p = "/dev/serial/by-path" ->
           [dir |-> DirSerial, link |-> FALSE,
            name |-> << "b", "y", "-", "p", "a", "t", "h" >>]
      [] p = "/dev/serial/by-id/usb-FTDI" ->
           [dir |-> DirById, link |-> TRUE,
            name |-> << "u", "s", "b", "-", "F", "T", "D", "I" >>] ]

Universe == DOMAIN PathInfo

\* Path::file_name
FileName(p) == PathInfo[p].name

\* The entries that come and go while the daemon runs; the others keep the
\* state Init gives them.
Pluggable == { "/dev/ttyUSB0", "/dev/serial/by-irobot-create" }

\* An entry is absent, live (it resolves to a device), or a dangling symlink
\* (listed by read_dir, but Path::exists follows it and answers false).
EntryStates == { "absent", "live", "dangling" }

\* Path::exists
Exists(f, p) == p \in DOMAIN f /\ f[p] = "live"

\* fs::read_dir(d) followed by entries.flatten(): the entries listed under d,
\* in an order the host chooses.
ReadDir(f, d) == { p \in DOMAIN f : PathInfo[p].dir = d /\ f[p] # "absent" }

\* ------------------------------------------------------ pick_serial_port
\* Each tier yields the set of values it can return (read_dir's order is the
\* host's choice); the empty set means the tier falls through to the next.

\* 1) Configured path
Tier1(c, f) ==
  IF c.path # None /\ Exists(f, c.path) THEN { c.path } ELSE {}

\* The name of the entry is not looked at.
Tier2_any_name(f) == { p \in ReadDir(f, DirSerial) : Exists(f, p) }

\* 2) Our udev-provided symlinks
Tier2(f) ==
  { p \in ReadDir(f, DirSerial) :
      StartsWith(FileName(p), PrefixByIrobot) /\ Exists(f, p) }

\* 3) /dev/serial/by-id/*
Tier3(f) == { p \in ReadDir(f, DirById) : Exists(f, p) }

\* 4) Fallback to ttyUSB* and ttyACM*: candidates, sorted, first element or None
Candidates(f) ==
  { p \in ReadDir(f, DirDev) :
      \/ StartsWith(FileName(p), PrefixTtyUSB)
      \/ StartsWith(FileName(p), PrefixTtyACM) }

\* The candidates are sorted in descending order.
SortedFirst_descending(S) ==
  IF S = {} THEN None
  ELSE CHOOSE p \in S : \A q \in S \ {p} : LexLess(FileName(q), FileName(p))

SortedFirst(S) ==
  IF S = {} THEN None
  ELSE CHOOSE p \in S : \A q \in S \ {p} : LexLess(FileName(p), FileName(q))

Tier4(f) == { SortedFirst(Candidates(f)) }

\* The values pick_serial_port can return on an unchanging namespace.
pick_serial_port(c, f) ==
  IF Tier1(c, f) # {} THEN Tier1(c, f)
  ELSE IF Tier2(f) # {} THEN Tier2(f)
  ELSE IF Tier3(f) # {} THEN Tier3(f)
  ELSE Tier4(f)

\* --------------------------------------------------------- Command frames
\* send_bytes is called with these four slices, in this order.
FrameStart == << 128 >>
FrameSong == << 140, 0, 3, 60, 16, 64, 16, 67, 24 >>
FramePlay == << 141, 0 >>
FramePower == << 133 >>
Frames == << FrameStart, FrameSong, FramePlay, FramePower >>

\* The sleeps after the first two frames change places.
Delays_swapped == << DelayAfterSong, DelayAfterStart, DelayAfterPlay >>

\* The sleep that follows frame i (none follows the last).
Delays == << DelayAfterStart, DelayAfterSong, DelayAfterPlay >>

\* The configurations explored: nothing configured, and a configured path
\* with a configured baud rate. The Option<u32> is << >> or << n >>.
Configs ==
  { [path |-> None, baud |-> << >>],
    [path |-> "/dev/ttyUSB0", baud |-> << 115200 >>] }

\* serial_cfg.baud.unwrap_or(57_600)
Baud(c) == IF c.baud = << >> THEN DefaultBaud ELSE c.baud[1]

\* ------------------------------------------------------------------ state
VARIABLES
  fs,            \* the host's device namespace: entry -> EntryStates
  serial_cfg,    \* SerialConfig handed to robot_worker
  rx_main,       \* messages queued on the channel main reads
  rx_robot,      \* messages queued on the channel robot_worker reads
  handler,       \* position of the ctrlc handler: "idle" or "sent_main"
  signals,       \* signals delivered so far
  main_pc,       \* main loop: "try_recv", "log", "sleep", "exited"
  pc,            \* robot_worker: "recv", "reset", "tier1".."tier4", "decide",
                 \*   "open", "write", "flush", "delay", "sleep", "done"
  last_handled,  \* Option<PathBuf>
  port_path,     \* the candidate pick_serial_port returned in this poll
  frame,         \* index in Frames of the frame being sent (0: none)
  result,        \* connect_and_act of this poll: "none" (not called),
                 \*   "running", "ok", or the tag of its Err string
  failed,        \* the I/O operation of this Session that failed, if any
  trace,         \* what this Session did to the port, in order
  mem_before,    \* last_handled when this Session started
  retry,         \* the candidate whose Session failed in the previous poll
  polls,         \* poll iterations completed
  sessions,      \* calls of connect_and_act so far
  sessions_ok,   \* calls of connect_and_act that returned Ok so far
  clears,        \* times last_handled was reset because its path was gone
  cleared,       \* last_handled was reset and no candidate was found since
  const_cand,    \* "unset", the value every poll so far got from
                 \*   pick_serial_port, or "mixed"
  succeeded,     \* the paths a Session has succeeded on
  handled_present, \* the paths a Session succeeded on and that have
                 \*   been present on the host ever since
  waited,        \* ms of fixed sleeps robot_worker has begun since a
                 \*   message was queued on rx_robot and not yet received
  last_ok,       \* the path of the latest Session that returned Ok
  handles,       \* serial ports connect_and_act holds open
  beats_after    \* messages main logged while a message was queued on
                 \*   rx_main

vars ==
  << fs, serial_cfg, rx_main, rx_robot, handler, signals, main_pc, pc,
     last_handled, port_path, frame, result, failed, trace, mem_before,
     retry, polls, sessions, sessions_ok, clears, cleared, const_cand,
     succeeded, handled_present, waited, last_ok, handles, beats_after >>

env_vars == << fs, serial_cfg >>
chan_vars == << rx_main, rx_robot, handler, signals >>
session_vars == << frame, result, failed, trace, mem_before >>
count_vars == << polls, sessions, sessions_ok, clears, cleared, const_cand >>
worker_vars ==
  << pc, last_handled, port_path, session_vars, retry, count_vars, waited >>

NoFailure == [op |-> "none", frame |-> 0]

\* The program's own state when main has set up the channels and spawned
\* robot_worker.
InitProgram ==
  /\ rx_main = 0
  /\ rx_robot = 0
  /\ handler = "idle"
  /\ signals = 0
  /\ main_pc = "try_recv"
  /\ pc = "recv"
  /\ last_handled = None
  /\ port_path = None
  /\ frame = 0
  /\ result = "none"
  /\ failed = NoFailure
  /\ trace = << >>
  /\ mem_before = None
  /\ retry = None
  /\ polls = 0
  /\ sessions = 0
  /\ sessions_ok = 0
  /\ clears = 0
  /\ cleared = FALSE
  /\ const_cand = "unset"
  /\ succeeded = {}
  /\ handled_present = {}
  /\ waited = 0
  /\ last_ok = None
  /\ handles = 0
  /\ beats_after = 0

\* The daemon starts on a host with no robot attached.
Init ==
  /\ fs = [p \in Universe |->
             IF p = "/dev/ttyS0" THEN "live" ELSE "absent"]
  /\ serial_cfg \in Configs
  /\ InitProgram

\* The process lives until main returns; the worker thread dies with it.
Running == main_pc # "exited"

\* ------------------------------------------------------------ environment
\* A device is attached, or udev creates a symlink.
Plug(p) ==
  /\ Running
  /\ fs[p] = "absent"
  /\ fs' = [fs EXCEPT ![p] = "live"]
  /\ UNCHANGED << serial_cfg, chan_vars, main_pc, beats_after, worker_vars,
                  handled_present, succeeded, last_ok, handles >>

\* A device is detached, or a symlink is removed.
Unplug(p) ==
  /\ Running
  /\ fs[p] # "absent"
  /\ fs' = [fs EXCEPT ![p] = "absent"]
  /\ handled_present' = handled_present \ {p}
  /\ UNCHANGED << serial_cfg, chan_vars, main_pc, beats_after, worker_vars,
                  succeeded, last_ok, handles >>

\* The target of a symlink goes away while the link stays.
Dangle(p) ==
  /\ Running
  /\ PathInfo[p].link
  /\ fs[p] = "live"
  /\ fs' = [fs EXCEPT ![p] = "dangling"]
  /\ handled_present' = handled_present \ {p}
  /\ UNCHANGED << serial_cfg, chan_vars, main_pc, beats_after, worker_vars,
                  succeeded, last_ok, handles >>

\* ------------------------------------------------- ctrlc handler (main.rs)
\* let _ = tx_main.send(());
HandlerSendMain ==
  /\ Running
  /\ handler = "idle"
  /\ signals < MaxSignals
  /\ signals' = signals + 1
  /\ rx_main' = rx_main + 1
  /\ handler' = "sent_main"
  /\ UNCHANGED << env_vars, rx_robot, main_pc, beats_after, worker_vars,
                  handled_present, succeeded, last_ok, handles >>

\* let _ = tx_robot.send(());
HandlerSendRobot ==
  /\ Running
  /\ handler = "sent_main"
  /\ rx_robot' = rx_robot + 1
  /\ handler' = "idle"
  /\ UNCHANGED << env_vars, rx_main, signals, main_pc, beats_after,
                  worker_vars,
                  handled_present, succeeded, last_ok, handles >>

\* The message is taken from the channel but the loop is not left.
MainTryRecv_no_break ==
  /\ main_pc = "try_recv"
  /\ IF rx_main > 0
       THEN rx_main' = rx_main - 1 /\ main_pc' = "log"
       ELSE rx_main' = rx_main /\ main_pc' = "log"
  /\ UNCHANGED << env_vars, rx_robot, handler, signals, worker_vars,
                  handled_present, succeeded, last_ok, handles, beats_after >>

\* -------------------------------------------------------------- main loop
\* if let Ok(_) = rx_main.try_recv() { break }
MainTryRecv ==
  /\ main_pc = "try_recv"
  /\ IF rx_main > 0
       THEN rx_main' = rx_main - 1 /\ main_pc' = "exited"
       ELSE rx_main' = rx_main /\ main_pc' = "log"
  /\ UNCHANGED << env_vars, rx_robot, handler, signals, worker_vars,
                  handled_present, succeeded, last_ok, handles, beats_after >>

\* The message is logged only while robot_worker is outside a Session.
MainLog_waits_for_worker ==
  /\ main_pc = "log"
  /\ pc \notin { "open", "write", "flush", "delay" }
  /\ main_pc' = "sleep"
  /\ beats_after' = IF rx_main > 0 THEN beats_after + 1 ELSE beats_after
  /\ UNCHANGED << env_vars, chan_vars, worker_vars, handled_present,
                  succeeded, last_ok, handles >>

\* info!("{}", config.message());
MainLog ==
  /\ main_pc = "log"
  /\ main_pc' = "sleep"
  /\ beats_after' = IF rx_main > 0 THEN beats_after + 1 ELSE beats_after
  /\ UNCHANGED << env_vars, chan_vars, worker_vars, handled_present,
                  succeeded, last_ok, handles >>

\* thread::sleep(config.interval());
MainSleep ==
  /\ main_pc = "sleep"
  /\ main_pc' = "try_recv"
  /\ UNCHANGED << env_vars, chan_vars, worker_vars, handled_present,
                  succeeded, last_ok, handles, beats_after >>

\* ----------------------------------------------------------- robot_worker
\* A reset that never happens: the existence check is lost.
reset_last_handled_never(prev, f) == prev

\* The negation is lost: the memory is reset when its path is still there.
reset_last_handled_inverted(prev, f) ==
  IF prev # None /\ Exists(f, prev) THEN None ELSE prev

\* Reset last_handled if it disappeared
reset_last_handled(prev, f) ==
  IF prev # None /\ ~Exists(f, prev) THEN None ELSE prev

\* The comparison with the remembered path is lost: every candidate is new.
should_handle_always(prev, port) == TRUE

\* Only an empty memory lets a Session run: a changed candidate does not.
should_handle_only_empty(prev, port) == prev = None

\* Edge-triggered: a path that went away and came back is handled again.
should_handle_edge(prev, port) ==
  IF prev # None
    THEN prev # port \/ port \notin handled_present
    ELSE TRUE

\* Only act when a new device shows up or if we haven't handled any
should_handle(prev, port) ==
  IF prev # None THEN prev # port ELSE TRUE

\* last_handled is set before the result is looked at.
after_session_always(res, prev, port) == port

\* A failed Session empties last_handled.
after_session_clears_on_err(res, prev, port) ==
  IF res = "ok" THEN port ELSE None

\* match connect_and_act(..) { Ok(()) => last_handled = Some(port_path), Err(e) => warn }
after_session(res, prev, port) ==
  IF res = "ok" THEN port ELSE prev

\* send_bytes maps the flush error with the write's prefix.
ErrTag_flush_as_write(op) ==
  CASE op = "open" -> "open serial"
    [] op = "write" -> "write"
    [] op = "flush" -> "write"

\* The prefixes map_err puts before the I/O error in connect_and_act and
\* send_bytes: all of the Err value that the program itself decides.
ErrTag(op) ==
  CASE op = "open" -> "open serial"
    [] op = "write" -> "write"
    [] op = "flush" -> "flush"

Errors == { ErrTag("open"), ErrTag("write"), ErrTag("flush") }

\* What one operation adds to the trace of the Session.
Event(op, data, arg) == [op |-> op, data |-> data, arg |-> arg]

\* A fixed sleep of ms begins: it counts towards the time a queued
\* cancellation has been waiting.
Waited(ms) == IF rx_robot > 0 THEN waited + ms ELSE 0

\* The message is taken but the loop goes on instead of returning.
RecvShutdown_continues ==
  /\ Running
  /\ pc = "recv"
  /\ rx_robot > 0
  /\ rx_robot' = rx_robot - 1
  /\ pc' = "reset"
  /\ UNCHANGED << env_vars, rx_main, handler, signals, main_pc, beats_after,
                  last_handled,
                  port_path, session_vars, retry, count_vars,
                  handled_present, succeeded, last_ok, handles, waited >>

\* if let Ok(_) = rx.recv_timeout(200 ms) { return }: a message is queued,
\* or arrives within the wait.
RecvShutdown ==
  /\ Running
  /\ pc = "recv"
  /\ rx_robot > 0
  /\ rx_robot' = rx_robot - 1
  /\ pc' = "done"
  /\ UNCHANGED << env_vars, rx_main, handler, signals, main_pc, beats_after,
                  last_handled,
                  port_path, session_vars, retry, count_vars,
                  handled_present, succeeded, last_ok, handles, waited >>

\* The wait times out although a message is queued.
RecvTimeout_deaf ==
  /\ Running
  /\ pc = "recv"
  /\ polls < MaxPolls
  /\ pc' = "reset"
  /\ retry' = IF result \in Errors THEN port_path ELSE None
  /\ port_path' = None
  /\ frame' = 0
  /\ result' = "none"
  /\ failed' = NoFailure
  /\ trace' = << >>
  /\ mem_before' = None
  /\ UNCHANGED << env_vars, chan_vars, main_pc, beats_after, last_handled,
                  count_vars,
                  handled_present, succeeded, last_ok, handles, waited >>

\* recv_timeout returns Err(Timeout): the iteration goes on. The previous
\* poll's candidate and Session are out of scope now.
RecvTimeout ==
  /\ Running
  /\ pc = "recv"
  /\ rx_robot = 0
  /\ polls < MaxPolls
  /\ pc' = "reset"
  /\ retry' = IF result \in Errors THEN port_path ELSE None
  /\ port_path' = None
  /\ frame' = 0
  /\ result' = "none"
  /\ failed' = NoFailure
  /\ trace' = << >>
  /\ mem_before' = None
  /\ UNCHANGED << env_vars, chan_vars, main_pc, beats_after, last_handled,
                  count_vars,
                  handled_present, succeeded, last_ok, handles, waited >>

\* if let Some(ref p) = last_handled { if !p.exists() { last_handled = None } }
ResetLastHandled ==
  /\ Running
  /\ pc = "reset"
  /\ last_handled' = reset_last_handled(last_handled, fs)
  /\ clears' = IF last_handled' # last_handled THEN clears + 1 ELSE clears
  /\ cleared' = (cleared \/ last_handled' # last_handled)
  /\ pc' = "tier1"
  /\ UNCHANGED << env_vars, chan_vars, main_pc, beats_after, port_path,
                  session_vars,
                  retry, polls, sessions, sessions_ok, const_cand,
                  handled_present, succeeded, last_ok, handles, waited >>

\* pick_serial_port returns r.
Picked(r) ==
  /\ port_path' = r
  /\ const_cand' = IF const_cand \in { "unset", r } THEN r ELSE "mixed"
  /\ pc' = "decide"

\* One tier of pick_serial_port reads the namespace: it returns one of the
\* values in found, or falls through to the tier next.
PickTier(here, found, next) ==
  /\ Running
  /\ pc = here
  /\ IF found # {}
       THEN \E r \in found : Picked(r)
       ELSE /\ pc' = next
            /\ UNCHANGED << port_path, const_cand >>
  /\ UNCHANGED << env_vars, chan_vars, main_pc, beats_after, last_handled,
                  session_vars,
                  retry, polls, sessions, sessions_ok, clears, cleared,
                  handled_present, succeeded, last_ok, handles, waited >>

PickTier1 == PickTier("tier1", Tier1(serial_cfg, fs), "tier2")
PickTier2 == PickTier("tier2", Tier2(fs), "tier3")
PickTier3 == PickTier("tier3", Tier3(fs), "tier4")
PickTier4 == PickTier("tier4", Tier4(fs), "tier4")

\* robot_worker returns at the end of its first iteration.
EndPoll_returns ==
  /\ pc' = "done"
  /\ polls' = polls + 1
  /\ waited' = Waited(PollSleepMs)

\* The iteration's work is over: thread::sleep(2 s) begins.
EndPoll ==
  /\ pc' = "sleep"
  /\ polls' = polls + 1
  /\ waited' = Waited(PollSleepMs)

\* connect_and_act is called whether or not there is a candidate.
Decide_without_candidate ==
  /\ Running
  /\ pc = "decide"
  /\ IF should_handle(last_handled, port_path)
       THEN /\ pc' = "open"
            /\ result' = "running"
            /\ mem_before' = last_handled
            /\ sessions' = sessions + 1
            /\ cleared' = FALSE
            /\ UNCHANGED << polls, waited >>
       ELSE /\ EndPoll
            /\ UNCHANGED << result, mem_before, sessions, cleared >>
  /\ retry' = None
  /\ UNCHANGED << env_vars, chan_vars, main_pc, beats_after, last_handled,
                  port_path, frame, failed, trace, sessions_ok, clears,
                  const_cand, handled_present, succeeded, last_ok, handles >>

\* match pick_serial_port(..): None, or Some(port_path) with should_handle
\* false: nothing to do. Otherwise connect_and_act is called.
Decide ==
  /\ Running
  /\ pc = "decide"
  /\ IF port_path # None /\ should_handle(last_handled, port_path)
       THEN /\ pc' = "open"
            /\ result' = "running"
            /\ mem_before' = last_handled
            /\ sessions' = sessions + 1
            /\ cleared' = FALSE
            /\ UNCHANGED << polls, waited >>
       ELSE /\ EndPoll
            /\ UNCHANGED << result, mem_before, sessions, cleared >>
  /\ retry' = None
  /\ UNCHANGED << env_vars, chan_vars, main_pc, beats_after, last_handled,
                  port_path,
                  frame, failed, trace, sessions_ok, clears, const_cand,
                  handled_present, succeeded, last_ok, handles >>

\* The port is kept open when connect_and_act returns an error.
Return_leaks_on_err(res) ==
  /\ result' = res
  /\ last_handled' = after_session(res, last_handled, port_path)
  /\ sessions_ok' = IF res = "ok" THEN sessions_ok + 1 ELSE sessions_ok
  /\ succeeded' =
       IF res = "ok" THEN succeeded \cup { port_path } ELSE succeeded
  /\ handled_present' =
       IF res = "ok" /\ Exists(fs, port_path)
         THEN handled_present \cup { port_path }
         ELSE handled_present
  /\ last_ok' = IF res = "ok" THEN port_path ELSE last_ok
  /\ handles' = IF res = "ok" THEN handles - 1 ELSE handles
  /\ EndPoll

\* connect_and_act returns res to robot_worker, which updates last_handled
\* and goes to sleep.
Return(res) ==
  /\ result' = res
  /\ last_handled' = after_session(res, last_handled, port_path)
  /\ sessions_ok' = IF res = "ok" THEN sessions_ok + 1 ELSE sessions_ok
  /\ succeeded' =
       IF res = "ok" THEN succeeded \cup { port_path } ELSE succeeded
  /\ handled_present' =
       IF res = "ok" /\ Exists(fs, port_path)
         THEN handled_present \cup { port_path }
         ELSE handled_present
  /\ last_ok' = IF res = "ok" THEN port_path ELSE last_ok
  /\ handles' = IF pc = "open" THEN handles ELSE handles - 1
  /\ EndPoll

\* The operation op on frame i fails: `?` returns the mapped error.
Fail(op, i) ==
  /\ failed' = [op |-> op, frame |-> i]
  /\ Return(ErrTag(op))

\* serialport::new(path, baud).timeout(500 ms).open(): it fails when the path
\* is not there, and may fail when it is (busy, permissions).
Open ==
  /\ Running
  /\ pc = "open"
  /\ trace' = Append(trace, Event("open", << >>, Baud(serial_cfg)))
  /\ \/ /\ Exists(fs, port_path)
        /\ pc' = "write"
        /\ frame' = 1
        /\ handles' = handles + 1
        /\ UNCHANGED << result, failed, last_handled, sessions_ok, polls,
                        handled_present, succeeded, last_ok, waited >>
     \/ /\ Fail("open", 0)
        /\ UNCHANGED frame
  /\ UNCHANGED << env_vars, chan_vars, main_pc, beats_after, port_path,
                  mem_before, retry,
                  sessions, clears, cleared, const_cand >>

\* The result of write_all is dropped: a failed write goes on to the flush.
Write_unchecked ==
  /\ Running
  /\ pc = "write"
  /\ trace' = Append(trace, Event("write", Frames[frame], 0))
  /\ pc' = "flush"
  /\ \/ failed' = failed
     \/ failed' = [op |-> "write", frame |-> frame]
  /\ UNCHANGED << result, last_handled, sessions_ok, polls, handled_present,
                  succeeded, last_ok, handles,
                  waited >>
  /\ UNCHANGED << env_vars, chan_vars, main_pc, beats_after, port_path,
                  frame, mem_before,
                  retry, sessions, clears, cleared, const_cand >>

\* send_bytes: port.write_all(data).map_err(..)?
Write ==
  /\ Running
  /\ pc = "write"
  /\ trace' = Append(trace, Event("write", Frames[frame], 0))
  /\ \/ /\ pc' = "flush"
        /\ UNCHANGED << result, failed, last_handled, sessions_ok, polls,
                        handled_present, succeeded, last_ok, handles, waited >>
     \/ Fail("write", frame)
  /\ UNCHANGED << env_vars, chan_vars, main_pc, beats_after, port_path,
                  frame, mem_before,
                  retry, sessions, clears, cleared, const_cand >>

\* send_bytes: port.flush().map_err(..); after the last frame connect_and_act
\* returns Ok(()).
Flush ==
  /\ Running
  /\ pc = "flush"
  /\ trace' = Append(trace, Event("flush", << >>, 0))
  /\ \/ /\ frame < Len(Frames)
        /\ pc' = "delay"
        /\ UNCHANGED << result, failed, last_handled, sessions_ok, polls,
                        handled_present, succeeded, last_ok, handles, waited >>
     \/ /\ frame = Len(Frames)
        /\ Return("ok")
        /\ UNCHANGED failed
     \/ Fail("flush", frame)
  /\ UNCHANGED << env_vars, chan_vars, main_pc, beats_after, port_path,
                  frame, mem_before,
                  retry, sessions, clears, cleared, const_cand >>

\* thread::sleep between two frames.
Delay ==
  /\ Running
  /\ pc = "delay"
  /\ trace' = Append(trace, Event("sleep", << >>, Delays[frame]))
  /\ waited' = Waited(Delays[frame])
  /\ frame' = frame + 1
  /\ pc' = "write"
  /\ UNCHANGED << env_vars, chan_vars, main_pc, beats_after, last_handled,
                  port_path,
                  result, failed, mem_before, retry, count_vars,
                  handled_present, succeeded, last_ok, handles >>

\* thread::sleep(2 s) is over: the next iteration begins.
Sleep ==
  /\ Running
  /\ pc = "sleep"
  /\ pc' = "recv"
  /\ UNCHANGED << env_vars, chan_vars, main_pc, beats_after, last_handled,
                  port_path,
                  session_vars, retry, count_vars, handled_present, succeeded, last_ok, handles, waited >>

\* ------------------------------------------------------------ the program
Next ==
  \/ \E p \in Pluggable : Plug(p)
  \/ \E p \in Pluggable : Unplug(p)
  \/ \E p \in Pluggable : Dangle(p)
  \/ HandlerSendMain
  \/ HandlerSendRobot
  \/ MainTryRecv
  \/ MainLog
  \/ MainSleep
  \/ RecvShutdown
  \/ RecvTimeout
  \/ ResetLastHandled
  \/ PickTier1
  \/ PickTier2
  \/ PickTier3
  \/ PickTier4
  \/ Decide
  \/ Open
  \/ Write
  \/ Flush
  \/ Delay
  \/ Sleep

Spec == Init /\ [][Next]_vars

\* ------------------------------------------------------------ the claims
\* No poll is under way: every poll begun so far has run to its sleep.
PollsComplete == pc \in { "sleep", "recv", "done" } /\ polls >= 1

\* Every poll so far got the same candidate path from pick_serial_port.
ConstantCandidate == const_cand \in Universe

\* The frames handed to write_all in this Session, in order.
Written ==
  LET w == SelectSeq(trace, LAMBDA e : e.op = "write")
  IN [i \in 1..Len(w) |-> w[i].data]

\* robot_worker takes a step.
WorkerStep == pc' # pc

\* C1 as stated: when pick_serial_port returns the same path in each of the
\* N >= 1 polls made since start (last_handled empty at start), exactly one
\* Session has been run once those polls are complete.
C1_ExactlyOneSession ==
  (ConstantCandidate /\ PollsComplete) => sessions = 1

\* C1 amended: with the same candidate in every poll and every existence
\* check finding it present, a Session is run in each poll until one returns
\* Ok and none after that: at most one Session succeeds, no Session runs
\* once one has succeeded, and exactly one is run when none fails.
C1_OneSessionUntilSuccess ==
  (ConstantCandidate /\ clears = 0) =>
    /\ result = "running" => sessions_ok = 0
    /\ PollsComplete =>
         /\ sessions >= 1
         /\ sessions_ok <= 1
         /\ sessions_ok = 0 => sessions = polls
         /\ sessions_ok = sessions => sessions = 1

\* The device is found in the first poll, its Session succeeds, and it stays
\* the candidate through every later poll: one Session in MaxPolls polls.
C1_Witness ==
  /\ ConstantCandidate
  /\ clears = 0
  /\ pc = "sleep"
  /\ polls = MaxPolls
  /\ sessions = 1
  /\ sessions_ok = 1

\* C2: in a poll where pick_serial_port returned a candidate and last_handled
\* is empty or names another path, the worker's next step is the call of
\* connect_and_act on that candidate, in the same iteration.
C2_NewCandidateRunsSession ==
  [][ (pc = "decide" /\ port_path # None /\ last_handled # port_path
       /\ WorkerStep)
      => (pc' = "open" /\ port_path' = port_path
          /\ sessions' = sessions + 1 /\ polls' = polls) ]_vars

\* A Session starts because the candidate differs from the handled path.
C2_Witness ==
  /\ pc = "open"
  /\ mem_before # None
  /\ mem_before # port_path

\* C3 as stated: in a poll where a path that a Session succeeded on is gone,
\* the existence check leaves last_handled empty.
C3_ClearedWheneverGone ==
  [][ (pc = "reset" /\ WorkerStep
       /\ \E p \in succeeded : ~Exists(fs, p))
      => last_handled' = None ]_vars

\* C3 amended: when last_handled still names the path and the existence
\* check finds it gone, the check clears last_handled in that poll;
\* last_handled then stays empty until pick_serial_port returns a candidate,
\* and in that poll a Session is run against that candidate.
C3_ReconnectRunsSession ==
  /\ [](cleared => last_handled = None)
  /\ [][ (pc = "reset" /\ WorkerStep /\ last_handled # None
          /\ ~Exists(fs, last_handled))
         => (last_handled' = None /\ cleared') ]_vars
  /\ [][ (pc = "decide" /\ WorkerStep /\ cleared /\ port_path # None)
         => (pc' = "open" /\ port_path' = port_path
             /\ sessions' = sessions + 1) ]_vars

\* One Session succeeded, its path went away and was forgotten, and the
\* second Session starts on the candidate that came back.
C3_Witness ==
  /\ pc = "open"
  /\ clears = 1
  /\ sessions_ok = 1
  /\ sessions = 2
  /\ mem_before = None

\* C4: when the write or the flush of frame k fails, the frames handed to the
\* port are exactly frames 1..k, connect_and_act has returned (so no later
\* frame follows), and last_handled is what it was when the Session began.
C4_WriteFailureStopsSession ==
  failed.op \in { "write", "flush" } =>
    /\ pc \in { "sleep", "recv", "done" }
    /\ result = ErrTag(failed.op)
    /\ Written = SubSeq(Frames, 1, failed.frame)
    /\ last_handled = mem_before

\* The flush of the second frame fails in a Session begun with a handled path
\* in memory.
C4_Witness ==
  /\ failed = [op |-> "flush", frame |-> 2]
  /\ mem_before # None
  /\ pc = "sleep"

\* C5: a failed Session leaves last_handled as it was and ends at the failing
\* operation (one open, no operation repeated); and when the next poll's
\* candidate is the path of the failed Session, connect_and_act is called on
\* it in that poll.
C5_FailureRetriedNextPoll ==
  /\ [](result \in Errors =>
          /\ last_handled = mem_before
          /\ last_handled # port_path
          /\ Len(SelectSeq(trace, LAMBDA e : e.op = "open")) = 1
          /\ trace[Len(trace)].op = failed.op
          /\ Len(Written) = failed.frame
          /\ Written = SubSeq(Frames, 1, failed.frame))
  /\ [](retry # None => last_handled # retry)
  /\ [][ (pc = "decide" /\ WorkerStep /\ retry # None /\ port_path = retry)
         => (pc' = "open" /\ port_path' = retry
             /\ sessions' = sessions + 1) ]_vars

\* The poll after a failed Session finds the same candidate again.
C5_Witness ==
  /\ pc = "decide"
  /\ retry # None
  /\ port_path = retry
  /\ polls = 1
  /\ sessions = 1

\* C6 as stated: a Session never succeeds on a path that a Session already
\* succeeded on and that has been present on the host ever since.
C6_OncePerPresence ==
  [][ sessions_ok' > sessions_ok => port_path \notin handled_present ]_vars

\* C7 as stated: in every state a non-empty last_handled names a path that
\* exists on the host.
C7_MemoryNamesExistingPath ==
  last_handled # None => Exists(fs, last_handled)

\* C7 amended: last_handled is cleared when the existence check at the top
\* of a poll finds its path gone: right after that check it is empty or
\* names a path that exists, and the check changes it in no other way.
C7_ClearedAtCheck ==
  [][ (pc = "reset" /\ WorkerStep)
      => \/ last_handled' = None /\ (last_handled = None \/ ~Exists(fs, last_handled))
         \/ last_handled' = last_handled /\ Exists(fs', last_handled') ]_vars

\* The second poll's check found the handled path gone and cleared it.
C7_Witness ==
  /\ pc = "tier1"
  /\ polls = 1
  /\ clears = 1
  /\ last_handled = None

\* Messages the handler has sent on tx_robot, and whether robot_worker has
\* received one.
RobotSent == IF handler = "sent_main" THEN signals - 1 ELSE signals
RobotReceived == RobotSent > rx_robot

\* C8: once recv_timeout has received the message the worker has returned,
\* and from then on it neither picks a port, nor changes last_handled, nor
\* starts a Session.
C8_TerminalAfterCancel ==
  /\ [](RobotReceived => pc = "done")
  /\ [][ pc = "done"
         => /\ pc' = "done"
            /\ last_handled' = last_handled
            /\ port_path' = port_path
            /\ const_cand' = const_cand
            /\ sessions' = sessions
            /\ trace' = trace ]_vars

\* The worker has returned while a candidate it has not handled is present.
C8_Witness ==
  /\ pc = "done"
  /\ RobotReceived
  /\ last_handled # None
  /\ pick_serial_port(serial_cfg, fs) \cap { None, last_handled } = {}

\* The fixed sleeps of one iteration: the three inter-frame delays and the
\* sleep that ends the poll.
IterationSleepMs ==
  DelayAfterStart + DelayAfterSong + DelayAfterPlay + PollSleepMs

\* C9 as stated: the worker has returned within the 200 ms of its
\* cancellation wait of the message being queued.
C9_Within200ms ==
  pc = "done" => waited <= RecvTimeoutMs

\* C9 amended: the worker notices a queued message only at its cancellation
\* wait, where its next step is to return; until then it finishes the
\* iteration it is in, so the fixed sleeps it still begins after the message
\* was queued add up to at most those of one iteration.
C9_NoticedAtNextCheck ==
  /\ [](waited <= IterationSleepMs)
  /\ [][ (pc = "recv" /\ rx_robot > 0 /\ WorkerStep) => pc' = "done" ]_vars

\* The message was queued as a Session began its first delay: the worker
\* returned after all the sleeps of that iteration.
C9_Witness ==
  /\ pc = "done"
  /\ waited = IterationSleepMs

\* The operations that can fail in a Session.
Stages ==
  { [op |-> "open", frame |-> 0] } \cup
  { [op |-> o, frame |-> i] : o \in { "write", "flush" }, i \in 1..Len(Frames) }

\* What a Session in which nothing fails does to the port.
SendTrace(i) ==
  << Event("write", Frames[i], 0), Event("flush", << >>, 0) >>

FullTrace(baud) ==
  << Event("open", << >>, baud) >>
    \o SendTrace(1) \o << Event("sleep", << >>, DelayAfterStart) >>
    \o SendTrace(2) \o << Event("sleep", << >>, DelayAfterSong) >>
    \o SendTrace(3) \o << Event("sleep", << >>, DelayAfterPlay) >>
    \o SendTrace(4)

\* The place of a stage in FullTrace.
StagePos(s) ==
  CASE s.op = "open" -> 1
    [] s.op = "write" -> 3 * s.frame - 1
    [] s.op = "flush" -> 3 * s.frame

\* C10 as stated: the Err value tells which frame's transmission failed.
C10_ErrNamesFrame ==
  result \in Errors =>
    \A s \in Stages : ErrTag(s.op) = result => s.frame = failed.frame

\* C10 amended: connect_and_act returns Ok exactly when the open and every
\* write and flush succeeded; otherwise it returns at the first failure, and
\* the Err value tells the kind of operation that failed (open, write or
\* flush), not the frame.
C10_ErrNamesOperation ==
  /\ result = "ok" =>
       failed = NoFailure /\ trace = FullTrace(Baud(serial_cfg))
  /\ failed # NoFailure => result \in Errors
  /\ result \in Errors =>
       /\ failed \in Stages
       /\ trace = SubSeq(FullTrace(Baud(serial_cfg)), 1, StagePos(failed))
       /\ \A s \in Stages : ErrTag(s.op) = result => s.op = failed.op

\* The flush of the third frame fails and connect_and_act returns its error.
C10_Witness ==
  /\ result = ErrTag("flush")
  /\ failed = [op |-> "flush", frame |-> 3]

\* ------------------------------------------------------------------- C11
\* C11: a Session whose open and writes all succeed does exactly this, in
\* this order: open; write [128], flush, sleep 50 ms; write
\* [140,0,3,60,16,64,16,67,24], flush, sleep 20 ms; write [141,0], flush,
\* sleep 1500 ms; write [133], flush; return. All a Session has done at any
\* moment is a prefix of that sequence: no write starts before the flush and
\* the sleep of the frame before it are over, no other bytes are written and
\* no sleep follows the last frame.
C11_SuccessfulSessionTrace ==
  LET expected ==
        << Event("open", << >>, Baud(serial_cfg)),
           Event("write", << 128 >>, 0),
           Event("flush", << >>, 0),
           Event("sleep", << >>, 50),
           Event("write", << 140, 0, 3, 60, 16, 64, 16, 67, 24 >>, 0),
           Event("flush", << >>, 0),
           Event("sleep", << >>, 20),
           Event("write", << 141, 0 >>, 0),
           Event("flush", << >>, 0),
           Event("sleep", << >>, 1500),
           Event("write", << 133 >>, 0),
           Event("flush", << >>, 0) >>
  IN /\ result = "ok" => trace = expected
     /\ result # "none" =>
          /\ Len(trace) <= Len(expected)
          /\ trace = SubSeq(expected, 1, Len(trace))
     /\ result = "none" => trace = << >>

\* A Session has sent all four frames and returned Ok.
C11_Witness ==
  /\ result = "ok"
  /\ pc = "sleep"
  /\ Len(trace) = 12
  /\ trace[12].op = "flush"

\* ------------------------------------------------------------------- C12
\* C12: the port a Session opened is closed when the Session returns, on
\* success and on every failure: at most one port is open at any time, and
\* one is open exactly while connect_and_act is between its successful open
\* and its return. None is open while robot_worker is outside a Session.
C12_HandleReleased ==
  /\ handles \in { 0, 1 }
  /\ handles = 1 <=> pc \in { "write", "flush", "delay" }
  /\ pc \in { "recv", "reset", "tier1", "tier2", "tier3", "tier4", "decide",
              "sleep", "done" } => handles = 0

\* A second Session has failed after its open and has returned: no port is
\* open.
C12_Witness ==
  /\ pc = "sleep"
  /\ sessions >= 2
  /\ result \in { ErrTag("write"), ErrTag("flush") }
  /\ failed.frame = 3
  /\ handles = 0

\* ------------------------------------------------------------------- C13
\* The daemon on a host where the robot's adapter is attached and stays
\* attached.
InitAttached ==
  /\ fs = [p \in Universe |->
             IF p \in { "/dev/ttyS0", "/dev/ttyUSB0" }
               THEN "live" ELSE "absent"]
  /\ serial_cfg \in Configs
  /\ InitProgram

\* The steps of the program itself: the handler, the main loop and
\* robot_worker.
NextAttached ==
  \/ HandlerSendMain
  \/ HandlerSendRobot
  \/ MainTryRecv
  \/ MainLog
  \/ MainSleep
  \/ RecvShutdown
  \/ RecvTimeout
  \/ ResetLastHandled
  \/ PickTier1
  \/ PickTier2
  \/ PickTier3
  \/ PickTier4
  \/ Decide
  \/ Open
  \/ Write
  \/ Flush
  \/ Delay
  \/ Sleep

\* The main thread is scheduled and each of its steps returns: try_recv does
\* not block, info! returns, the sleep is finite. Nothing is assumed of
\* robot_worker, whose write may never return, nor of the ctrlc handler.
SpecHeartbeat ==
  /\ InitAttached
  /\ [][NextAttached]_vars
  /\ WF_vars(MainTryRecv)
  /\ WF_vars(MainLog)
  /\ WF_vars(MainSleep)

\* C13: the main loop does not depend on robot_worker: whatever robot_worker
\* is doing, the step the main loop is at can be taken; and also when
\* robot_worker stays in a write for ever, the main loop logs its message
\* again and again until it exits, and exits once a message is queued on
\* rx_main.
C13_HeartbeatIndependent ==
  /\ [](main_pc = "try_recv" => ENABLED MainTryRecv)
  /\ [](main_pc = "log" => ENABLED MainLog)
  /\ [](main_pc = "sleep" => ENABLED MainSleep)
  /\ []<>(main_pc \in { "sleep", "exited" })
  /\ (rx_main > 0) ~> (main_pc = "exited")

\* The main loop has logged once after the message was queued and has
\* exited, while robot_worker is still in the write of a frame.
C13_Witness ==
  /\ pc = "write"
  /\ main_pc = "exited"
  /\ beats_after = 1

\* ------------------------------------------------------------------- C14
\* C14: no failure stops robot_worker. A poll that found no candidate, a
\* failed open and a failed write or flush of any frame all end in the 2 s
\* sleep, after which the next iteration begins with the cancellation check;
\* robot_worker returns only from that check, by receiving a message.
C14_OnlyCancellationStops ==
  /\ [][pc' = "done" /\ pc # "done"
          => pc = "recv" /\ rx_robot > 0 /\ rx_robot' = rx_robot - 1]_vars
  /\ [][pc = "decide" /\ port_path = None /\ WorkerStep
          => pc' = "sleep"]_vars
  /\ [][failed' # failed /\ pc \in { "open", "write", "flush" }
          => pc' = "sleep" /\ result' \in Errors]_vars
  /\ [][pc = "sleep" /\ WorkerStep => pc' = "recv"]_vars
  /\ [](pc = "sleep" /\ Running => ENABLED Sleep)
  /\ [](pc = "recv" /\ Running /\ rx_robot = 0 /\ polls < MaxPolls
          => ENABLED RecvTimeout)
  /\ [](result \in Errors => pc # "done" \/ RobotReceived)

\* A Session failed, robot_worker slept, and it is now in the next poll.
C14_Witness ==
  /\ retry # None
  /\ pc = "tier1"
  /\ polls = 2
  /\ rx_robot = 0
  /\ ~RobotReceived

\* ---------------------------------------------------------- C15 and C16
\* The configurations pick_serial_port is called with: no path, a path that
\* no tier but the first can return, and a path the fallback can return too.
LocatorConfigs ==
  { [path |-> None, baud |-> << >>],
    [path |-> "/dev/ttyS0", baud |-> << >>],
    [path |-> "/dev/ttyUSB0", baud |-> << >>] }

\* robot_worker starts on any namespace: every entry absent, live or
\* dangling.
InitLocator ==
  /\ fs \in [Universe -> EntryStates]
  /\ serial_cfg \in LocatorConfigs
  /\ InitProgram

\* The first iteration of robot_worker up to the return of
\* pick_serial_port, on a namespace that does not change meanwhile.
NextLocator ==
  \/ RecvTimeout
  \/ ResetLastHandled
  \/ PickTier1
  \/ PickTier2
  \/ PickTier3
  \/ PickTier4

SpecLocator == InitLocator /\ [][NextLocator]_vars

\* C15: pick_serial_port returns a match of the first tier that has one:
\* the configured path whenever it exists, whatever else is there; else an
\* existing by-irobot- entry of /dev/serial if there is one, before any
\* by-id and any ttyUSB/ttyACM entry; else an existing entry of
\* /dev/serial/by-id if there is one, before any ttyUSB/ttyACM entry.
C15_HighestTierWins ==
  LET conf == serial_cfg.path
      hasConf == conf # None /\ fs[conf] = "live"
      irobot ==
        { p \in Universe :
            /\ PathInfo[p].dir = "/dev/serial"
            /\ StartsWith(PathInfo[p].name, PrefixByIrobot)
            /\ fs[p] = "live" }
      byId ==
        { p \in Universe :
            PathInfo[p].dir = "/dev/serial/by-id" /\ fs[p] = "live" }
  IN pc = "decide" =>
       /\ hasConf => port_path = conf
       /\ ~hasConf /\ irobot # {} => port_path \in irobot
       /\ ~hasConf /\ irobot = {} /\ byId # {} => port_path \in byId
       /\ port_path \in irobot /\ port_path # conf => ~hasConf
       /\ port_path \in byId /\ port_path # conf =>
            ~hasConf /\ irobot = {}

\* The configured path is not there; a by-irobot- symlink, a by-id entry,
\* another entry of /dev/serial and two flat entries are: the symlink is
\* returned.
C15_Witness ==
  /\ pc = "decide"
  /\ serial_cfg.path = "/dev/ttyS0"
  /\ fs["/dev/ttyS0"] = "absent"
  /\ fs["/dev/serial/by-irobot-create"] = "live"
  /\ fs["/dev/serial/by-path"] = "live"
  /\ fs["/dev/serial/by-id/usb-FTDI"] = "live"
  /\ fs["/dev/ttyACM0"] = "live"
  /\ fs["/dev/ttyUSB0"] = "live"
  /\ port_path = "/dev/serial/by-irobot-create"

\* C16: with no match in the three tiers above it, pick_serial_port returns
\* the entry of /dev with the bytewise smallest name among those whose name
\* starts with ttyUSB or ttyACM (ttyACM0 before ttyUSB0 before ttyUSB10),
\* and None exactly when /dev lists no such entry.
C16_FlatFallbackSmallest ==
  LET conf == serial_cfg.path
      higher ==
        { p \in Universe :
            /\ fs[p] = "live"
            /\ \/ p = conf
               \/ /\ PathInfo[p].dir = "/dev/serial"
                  /\ StartsWith(PathInfo[p].name, PrefixByIrobot)
               \/ PathInfo[p].dir = "/dev/serial/by-id" }
      flat ==
        { p \in Universe :
            /\ PathInfo[p].dir = "/dev"
            /\ fs[p] # "absent"
            /\ \/ StartsWith(PathInfo[p].name, PrefixTtyUSB)
               \/ StartsWith(PathInfo[p].name, PrefixTtyACM) }
      order == << "/dev/ttyACM0", "/dev/ttyUSB0", "/dev/ttyUSB10" >>
  IN pc = "decide" /\ higher = {} =>
       /\ port_path = None <=> flat = {}
       /\ flat # {} =>
            /\ port_path \in flat
            /\ \A q \in flat \ { port_path } :
                 LexLess(PathInfo[port_path].name, PathInfo[q].name)
            /\ \E i \in 1..3 :
                 /\ port_path = order[i]
                 /\ \A j \in 1..(i - 1) : order[j] \notin flat

\* Nothing in the higher tiers; /dev lists ttyUSB10 (dangling), ttyUSB0 and
\* ttyS0: ttyUSB0 is returned.
C16_Witness ==
  /\ pc = "decide"
  /\ serial_cfg.path = None
  /\ fs["/dev/serial/by-irobot-create"] = "dangling"
  /\ fs["/dev/serial/by-id/usb-FTDI"] = "absent"
  /\ fs["/dev/ttyACM0"] = "absent"
  /\ fs["/dev/ttyUSB0"] = "live"
  /\ fs["/dev/ttyUSB10"] = "dangling"
  /\ fs["/dev/ttyS0"] = "live"
  /\ port_path = "/dev/ttyUSB0"

\* ------------------------------------------------------------------- C17
\* C17: a poll in which pick_serial_port returns None calls no
\* connect_and_act and leaves last_handled as it is; starting with
\* last_handled empty, as long as every poll so far got None no Session has
\* run and last_handled is still empty.
C17_NoCandidateNoSession ==
  /\ [][pc = "decide" /\ port_path = None /\ WorkerStep
          => /\ pc' = "sleep"
             /\ sessions' = sessions
             /\ result' = "none"
             /\ trace' = << >>
             /\ last_handled' = last_handled]_vars
  /\ [](const_cand = None
          => /\ sessions = 0
             /\ last_handled = None
             /\ succeeded = {}
             /\ handles = 0)

\* Every poll explored has ended without a candidate.
C17_Witness ==
  /\ const_cand = None
  /\ polls = MaxPolls
  /\ pc = "sleep"
  /\ sessions = 0
  /\ last_handled = None

\* ------------------------------------------------------------------- C18
\* C18: the decision looks at the path only, not at what happened to it: a
\* Session is run in a poll only against a candidate that last_handled did
\* not name at the decision. So when the handled path goes away and comes
\* back between two polls (each existence check finds it, each poll gets it
\* as candidate), last_handled still names it and no further Session is run.
C18_LevelTriggered ==
  /\ result # "none" => port_path # None /\ mem_before # port_path
  /\ pc \in { "open", "write", "flush", "delay" } =>
       last_handled # port_path
  /\ ConstantCandidate /\ clears = 0 => sessions_ok <= 1
  /\ ConstantCandidate /\ clears = 0 /\ sessions_ok = 1 /\ result = "none" =>
       last_handled = const_cand

\* The handled path went away and came back after its Session; the poll
\* after that found it at the existence check, got it as candidate and ran
\* no Session.
C18_Witness ==
  /\ pc = "sleep"
  /\ polls >= 2
  /\ ConstantCandidate
  /\ clears = 0
  /\ sessions = 1
  /\ sessions_ok = 1
  /\ result = "none"
  /\ port_path = last_handled
  /\ Exists(fs, port_path)
  /\ port_path \notin handled_present

\* ------------------------------------------------------------------- C19
\* C19: the iteration of the main loop whose try_recv gets the message logs
\* nothing and ends the loop: main has taken a message from rx_main exactly
\* when it has exited. From the moment the handler has queued the message
\* the loop logs its message at most once more (the iteration that was past
\* its try_recv), whatever robot_worker is doing or has done.
C19_AtMostOneBeatAfterCancel ==
  /\ beats_after \in { 0, 1 }
  /\ signals - rx_main > 0 <=> main_pc = "exited"
  /\ main_pc \in { "log", "sleep" } => signals = rx_main
  /\ main_pc = "sleep" /\ rx_main > 0 => beats_after <= 1
  /\ signals = 0 => beats_after = 0

\* The message was queued while the loop was past its try_recv: it logged
\* once more and exited at the next try_recv, after robot_worker had
\* returned.
C19_Witness ==
  /\ main_pc = "exited"
  /\ beats_after = 1
  /\ pc = "done"

\* ------------------------------------------------------------------- C20
\* C20: last_handled is empty or names the path of the latest Session that
\* succeeded, and never a path no Session succeeded on. It changes in two
\* steps only: the existence check at the start of a poll empties it when
\* its path is gone, and the return of a Session with Ok sets it to that
\* Session's candidate.
C20_MemoryInvariants ==
  /\ [](last_handled \in { None, last_ok })
  /\ [](last_handled # None => last_handled \in succeeded)
  /\ [](sessions_ok = 0 => last_handled = None)
  /\ [][last_handled' # last_handled
          => \/ /\ pc = "reset"
                /\ last_handled' = None
                /\ ~Exists(fs, last_handled)
             \/ /\ pc = "flush"
                /\ frame = 4
                /\ result' = "ok"
                /\ sessions_ok' = sessions_ok + 1
                /\ last_handled' = port_path]_vars

\* Both steps have happened: a Session succeeded, its path went away and
\* last_handled was emptied, and a Session on another path has set it again.
C20_Witness ==
  /\ clears = 1
  /\ sessions_ok = 2
  /\ Cardinality(succeeded) = 2
  /\ last_handled # None
  /\ last_handled = last_ok

====
